---- MODULE Spec2Model ----
(***************************************************************************)
(* The dozzle agent's gRPC server (package agent) and the docker types it  *)
(* converts.  One connection is followed from its handshake through one    *)
(* call to the handler's return.  The handlers are translated from the     *)
(* server source; the event generator, the container store and the runtime *)
(* client, which live in package docker, are modelled from their           *)
(* documented contract.                                                    *)
(***************************************************************************)
EXTENDS Integers, Sequences, FiniteSets, TLC

VARIABLES
    peer,          \* the certificate the connecting peer presents
    host,          \* the containers the runtime knows, in listing order
    storeReady,    \* whether the container store was ever seeded
    pc,            \* position of the connection and of its call's handler
    op,            \* the operation called ("none" while idle)
    req,           \* the request message
    result,        \* what the handler returned: [err, resp]
    runtimeCalls,  \* calls made to client.ContainerActions: <<action, id>>
    cancelled,     \* out.Context().Done() is closed
    sent,          \* the messages handed to out.Send, in order
    reader,        \* the log reader the runtime client opened
    produced,      \* LogEvents the generator has created from the reader
    buffer,        \* LogEvents created and not yet taken from g.Events
    Errors,        \* g.Errors, a channel of capacity 1
    gen,           \* the generator's read loop: none, reading, ended
    eventsClosed,  \* g.Events is closed
    errReported,   \* the reader / generator reported a read error
    rawOffset,     \* bytes the raw reader has returned so far
    reads,         \* number of reader.Read calls made by StreamRawBytes
    lastRead,      \* what the last pass of its read loop read and sent
    subscribed,    \* the store holds the call's subscription channel
    delivered,     \* what the store has put on the call's channel
    fnIn,          \* argument of the pure function under check
    fnOut          \* its result

vars == <<peer, host, storeReady, pc, op, req, result, runtimeCalls, cancelled,
          sent, reader, produced, buffer, Errors, gen, eventsClosed, errReported,
          rawOffset, reads, lastRead, subscribed, delivered, fnIn, fnOut>>

-----------------------------------------------------------------------------
(* Bounds of the model *)

\* lines one log reader yields before it ends
MaxLines == 2
\* LogEvents the generator may hold between its reader and g.Events
MaxPending == 2
\* notifications the store delivers to one subscription
MaxFeed == 2
\* reader.Read calls of one StreamRawBytes call
MaxReads == 3
\* bytes the raw reader holds beyond one full buffer
ExtraBytes == 1
\* samples the ring buffer of a container's stats holds
RingCapacity == 2

(* Program constants *)

\* StreamRawBytes: buf := make([]byte, 1024)
BufSize == 1024

-----------------------------------------------------------------------------
(* docker/types.go *)

Start == "start"
Stop == "stop"
Restart == "restart"

Beginning == "start"
Middle == "middle"
End == "end"

\* The values a LogEvent.Message (type any) holds.  A string; an
\* orderedmap.OrderedMap[string, any] or [string, string], given by its
\* key/value pairs in insertion order; or any other Go value.
StrMsg(s) == [type |-> "string", str |-> s, pairs |-> <<>>]
MapAnyMsg(ps) == [type |-> "omap_any", str |-> "", pairs |-> ps]
MapStrMsg(ps) == [type |-> "omap_string", str |-> "", pairs |-> ps]
OtherMsg == [type |-> "other", str |-> "", pairs |-> <<>>]

\* a JSON value of an ordered map: a string or a number
JStr(s) == [t |-> "str", s |-> s, n |-> 0]
JNum(n) == [t |-> "num", s |-> "", n |-> n]
KV(k, v) == [k |-> k, v |-> v]

LogEvent(m, ts, id, lvl, p, s, c) ==
    [Message |-> m, Timestamp |-> ts, Id |-> id, Level |-> lvl,
     Position |-> p, Stream |-> s, ContainerID |-> c]

-----------------------------------------------------------------------------
(* errors *)

ErrNil == [type |-> "nil", code |-> "OK", msg |-> ""]
\* status.Error(code, msg)
StatusError(c, m) == [type |-> "status", code |-> c, msg |-> m]
\* a plain Go error, not a gRPC status
RawError(m) == [type |-> "raw", code |-> "Unknown", msg |-> m]
EOF == RawError("EOF")

-----------------------------------------------------------------------------
(* logEventToPb and orderedMapToJSONBytes *)

Quote(s) == "\"" \o s \o "\""

jsonValue(v) == IF v.t = "str" THEN Quote(v.s) ELSE ToString(v.n)

RECURSIVE jsonPairs(_)
jsonPairs(ps) ==
    IF ps = <<>> THEN ""
    ELSE Quote(Head(ps).k) \o ":" \o jsonValue(Head(ps).v)
         \o (IF Tail(ps) = <<>> THEN "" ELSE "," \o jsonPairs(Tail(ps)))

\* json.NewEncoder(&bytes).Encode(data): the object with its keys in the
\* map's order, followed by a newline
orderedMapToJSONBytes(ps) == "{" \o jsonPairs(ps) \o "}\n"

\* anypb.New(&pb.SimpleMessage{Message: data})
AnySimple(data) == [type_url |-> "SimpleMessage", message |-> data, data |-> ""]
\* anypb.New(&pb.ComplexMessage{Data: data})
AnyComplex(data) == [type_url |-> "ComplexMessage", message |-> "", data |-> data]

\* timestamppb.New(time.Unix(sec, 0))
TimestampFromUnix(sec) == [seconds |-> sec, nanos |-> 0]

\* the switch on event.Message's dynamic type has collapsed to one wire shape
logEventToPb_collapsed(event) ==
    [Message |-> IF event.Message.type = "string"
                 THEN AnySimple(event.Message.str)
                 ELSE AnySimple(orderedMapToJSONBytes(event.Message.pairs)),
     Timestamp |-> TimestampFromUnix(event.Timestamp),
     Id |-> event.Id,
     ContainerId |-> event.ContainerID,
     Level |-> event.Level,
     Stream |-> event.Stream,
     Position |-> event.Position]

\* "fatal" stands for log.Fatalf, which ends the process
logEventToPb(event) ==
    IF event.Message.type \notin {"string", "omap_any", "omap_string"}
    THEN "fatal"
    ELSE [Message |-> IF event.Message.type = "string"
                      THEN AnySimple(event.Message.str)
                      ELSE AnyComplex(orderedMapToJSONBytes(event.Message.pairs)),
          Timestamp |-> TimestampFromUnix(event.Timestamp),
          Id |-> event.Id,
          ContainerId |-> event.ContainerID,
          Level |-> event.Level,
          Stream |-> event.Stream,
          Position |-> event.Position]

-----------------------------------------------------------------------------
(* Containers, the store and the runtime client *)

Time(sec) == [seconds |-> sec, nanos |-> 0]

Stat(id, cpu, mem, usage) ==
    [ID |-> id, CPUPercent |-> cpu, MemoryPercent |-> mem, MemoryUsage |-> usage]

\* RingBuffer[T]: Size slots, filled in turn; once full a push overwrites
\* the oldest slot, which start points at
NewRingBuffer(size) == [Size |-> size, data |-> <<>>, start |-> 1]

Push(rb, v) ==
    IF Len(rb.data) < rb.Size
    THEN [rb EXCEPT !.data = Append(@, v)]
    ELSE [rb EXCEPT !.data[rb.start] = v, !.start = (rb.start % rb.Size) + 1]

RECURSIVE PushAll(_, _)
PushAll(rb, vs) ==
    IF vs = <<>> THEN rb ELSE PushAll(Push(rb, Head(vs)), Tail(vs))

\* Data(): the values held, oldest first
RingData(rb) ==
    SubSeq(rb.data, rb.start, Len(rb.data)) \o SubSeq(rb.data, 1, rb.start - 1)

\* the samples the store has recorded for each container, in time order
StatsRecorded(id) ==
    IF id = "c1"
    THEN <<Stat("c1", 9, 19, 299), Stat("c1", 10, 20, 300), Stat("c1", 11, 21, 301)>>
    ELSE <<>>

ContainerA ==
    [ID |-> "c1", Name |-> "web", Image |-> "nginx:1", ImageID |-> "sha256:aa",
     Command |-> "nginx -g", Created |-> Time(100), StartedAt |-> Time(101),
     State |-> "running", Health |-> "healthy", Host |-> "h1", Tty |-> FALSE,
     Labels |-> [app |-> "web"], Group |-> "front",
     Stats |-> PushAll(NewRingBuffer(RingCapacity), StatsRecorded("c1"))]

ContainerB ==
    [ID |-> "c2", Name |-> "db", Image |-> "postgres:16", ImageID |-> "sha256:bb",
     Command |-> "postgres", Created |-> Time(200), StartedAt |-> Time(202),
     State |-> "exited", Health |-> "", Host |-> "h1", Tty |-> TRUE,
     Labels |-> [app |-> "db"], Group |-> "",
     Stats |-> PushAll(NewRingBuffer(RingCapacity), StatsRecorded("c2"))]

\* the listings a host may hold
HostListings == {<<>>, <<ContainerA>>, <<ContainerA, ContainerB>>}

\* container ids a request may carry
ReqIds == {"c1", "c2", "bad-id"}

\* values of the wire enum pb.ContainerAction: the three named ones and a
\* number outside them (a proto3 enum field carries any int32)
WireActions == {"ContainerAction_Start", "ContainerAction_Stop",
                "ContainerAction_Restart", "ContainerAction_99"}

HostIds == {host[i].ID : i \in 1..Len(host)}

Lookup(list, id) == CHOOSE c \in {list[i] : i \in 1..Len(list)} : c.ID = id

\* the containers the store holds: the host's, once it was seeded
StoreContainers == IF storeReady THEN host ELSE <<>>

\* store.FindContainer(id): the container, or an error
store_FindContainer(id) ==
    IF \E i \in 1..Len(StoreContainers) : StoreContainers[i].ID = id
    THEN [err |-> ErrNil, container |-> Lookup(StoreContainers, id)]
    ELSE [err |-> RawError("not found"), container |-> "none"]

\* store.ListContainers(): the snapshot; fails only if the store was never
\* successfully initialized
store_ListContainers ==
    IF storeReady THEN [err |-> ErrNil, containers |-> host]
    ELSE [err |-> RawError("store not initialized"), containers |-> <<>>]

\* client.FindContainer(id), asked of the runtime
client_FindContainer(id) ==
    IF id \in HostIds THEN [err |-> ErrNil, container |-> Lookup(host, id)]
    ELSE [err |-> RawError("No such container"), container |-> "none"]

\* client.ContainerActions(action, id): the runtime refuses an id it does not
\* know, and may fail (fail) on one it knows
client_ContainerActions(action, id, fail) ==
    IF id \notin HostIds THEN RawError("No such container")
    ELSE IF fail THEN RawError("runtime failure")
    ELSE ErrNil

\* client.Host()
client_Host ==
    [ID |-> "h1", Name |-> "host-1", NCPU |-> 4, MemTotal |-> 8192,
     DockerVersion |-> "26.1"]

ServerVersion == "v7"

-----------------------------------------------------------------------------
(* Unary handlers *)

Response(err, resp) == [err |-> err, resp |-> resp]
NoResult == Response(ErrNil, <<>>)

ContainerStatToPb(stat) ==
    [Id |-> stat.ID, CpuPercent |-> stat.CPUPercent,
     MemoryPercent |-> stat.MemoryPercent, MemoryUsage |-> stat.MemoryUsage]

\* the pb.Container literal of FindContainer
FindContainerToPb(container) ==
    [Id |-> container.ID, Name |-> container.Name, Image |-> container.Image,
     ImageId |-> container.ImageID, Command |-> container.Command,
     Created |-> container.Created, State |-> container.State,
     Health |-> container.Health, Host |-> container.Host,
     Tty |-> container.Tty, Labels |-> container.Labels,
     Group |-> container.Group, Started |-> container.StartedAt,
     Stats |-> <<>>]

\* the stats are appended newest first
ListContainerToPb_newestFirst(container) ==
    LET stats == RingData(container.Stats) IN
    [Id |-> container.ID, Name |-> container.Name, Image |-> container.Image,
     ImageId |-> container.ImageID, Created |-> container.Created,
     State |-> container.State, Health |-> container.Health,
     Host |-> container.Host, Tty |-> container.Tty,
     Labels |-> container.Labels, Group |-> container.Group,
     Started |-> container.StartedAt,
     Stats |-> [i \in 1..Len(stats) |-> ContainerStatToPb(stats[Len(stats) + 1 - i])],
     Command |-> container.Command]

\* the pb.Container literal of ListContainers, with the pbStats built from
\* container.Stats.Data()
ListContainerToPb(container) ==
    LET stats == RingData(container.Stats) IN
    [Id |-> container.ID, Name |-> container.Name, Image |-> container.Image,
     ImageId |-> container.ImageID, Created |-> container.Created,
     State |-> container.State, Health |-> container.Health,
     Host |-> container.Host, Tty |-> container.Tty,
     Labels |-> container.Labels, Group |-> container.Group,
     Started |-> container.StartedAt,
     Stats |-> [i \in 1..Len(stats) |-> ContainerStatToPb(stats[i])],
     Command |-> container.Command]

\* the pb.Container literal of StreamContainerStarted: no Command, no Stats
StartedContainerToPb(container) ==
    [Id |-> container.ID, Name |-> container.Name, Image |-> container.Image,
     ImageId |-> container.ImageID, Command |-> "",
     Created |-> container.Created, State |-> container.State,
     Health |-> container.Health, Host |-> container.Host,
     Tty |-> container.Tty, Labels |-> container.Labels,
     Group |-> container.Group, Started |-> container.StartedAt,
     Stats |-> <<>>]

FindContainerCall(in) ==
    LET found == store_FindContainer(in.ContainerId) IN
    IF found.err # ErrNil
    THEN Response(StatusError("NotFound", found.err.msg), <<>>)
    ELSE Response(ErrNil, <<FindContainerToPb(found.container)>>)

ListContainersCall ==
    LET listed == store_ListContainers IN
    IF listed.err # ErrNil
    THEN Response(listed.err, <<>>)
    ELSE Response(ErrNil, [i \in 1..Len(listed.containers) |->
                              ListContainerToPb(listed.containers[i])])

HostInfoCall ==
    LET h == client_Host IN
    Response(ErrNil, <<[Id |-> h.ID, Name |-> h.Name, CpuCores |-> h.NCPU,
                        Memory |-> h.MemTotal, DockerVersion |-> h.DockerVersion,
                        AgentVersion |-> ServerVersion]>>)

\* an unknown wire action is forwarded as a restart
ToDockerAction_forwarding(wire) ==
    CASE wire = "ContainerAction_Start" -> Start
      [] wire = "ContainerAction_Stop" -> Stop
      [] OTHER -> Restart

\* Stop and Restart are exchanged
ToDockerAction_swapped(wire) ==
    CASE wire = "ContainerAction_Start" -> Start
      [] wire = "ContainerAction_Stop" -> Restart
      [] wire = "ContainerAction_Restart" -> Stop
      [] OTHER -> "invalid"

\* the switch of ContainerAction; "invalid" is its default case
ToDockerAction(wire) ==
    CASE wire = "ContainerAction_Start" -> Start
      [] wire = "ContainerAction_Stop" -> Stop
      [] wire = "ContainerAction_Restart" -> Restart
      [] OTHER -> "invalid"

\* ContainerAction: the result, and the calls made to the runtime client
ContainerActionCall(in, fail) ==
    LET action == ToDockerAction(in.Action) IN
    IF action = "invalid"
    THEN [result |-> Response(StatusError("InvalidArgument", "invalid action"), <<>>),
          calls |-> <<>>]
    ELSE LET err == client_ContainerActions(action, in.ContainerId, fail) IN
         [result |-> IF err # ErrNil
                     THEN Response(StatusError("Internal", err.msg), <<>>)
                     ELSE Response(ErrNil, <<"ContainerActionResponse">>),
          calls |-> <<[action |-> action, id |-> in.ContainerId, err |-> err]>>]

Request(id, action, since) == [ContainerId |-> id, Action |-> action, Since |-> since]
NoRequest == Request("", "", "nil")

-----------------------------------------------------------------------------
(* The log reader and the event generator *)

ZeroTime == "0001-01-01T00:00:00Z"
SinceValues == {"nil", "2024-06-01T00:00:00Z"}

NoReader == [kind |-> "none", since |-> "", size |-> 0]

\* the lines a container writes: plain text on stdout, a JSON object on stderr
Lines ==
    {[stream |-> "stdout", ts |-> 1717200000, json |-> FALSE,
      text |-> "hello", pairs |-> <<>>, level |-> ""],
     [stream |-> "stderr", ts |-> 1717200005, json |-> TRUE,
      text |-> "", pairs |-> <<KV("level", JStr("error")), KV("code", JNum(7))>>,
      level |-> "error"]}

\* the parser: a JSON line keeps its keys in order, any other line is a plain
\* string; the generator numbers the events of one session 1, 2, ...
createEvent(line, seq, containerId) ==
    LogEvent(IF line.json THEN MapAnyMsg(line.pairs) ELSE StrMsg(line.text),
             line.ts, seq, line.level,
             IF seq = 1 THEN Beginning ELSE Middle,
             line.stream, containerId)

\* client.ContainerLogs / client.ContainerLogsBetweenDates: a reader, or an
\* error when the runtime does not know the container or fails (fail)
client_ContainerLogs(id, fail) ==
    IF id \notin HostIds THEN RawError("No such container")
    ELSE IF fail THEN RawError("runtime failure")
    ELSE ErrNil

\* the call's context is done: the caller cancelled, or the handler returned
CtxDone == cancelled \/ pc = "returned"

Terminal == {"returned", "panicked"}

\* the generator's read loop turns the reader's next line into a LogEvent
GenRead ==
    /\ gen = "reading" /\ pc \notin Terminal /\ ~CtxDone
    /\ Len(produced) < MaxLines /\ Len(buffer) < MaxPending
    /\ \E line \in Lines :
         LET ev == createEvent(line, Len(produced) + 1, req.ContainerId) IN
         /\ produced' = Append(produced, ev)
         /\ buffer' = Append(buffer, ev)
    /\ UNCHANGED <<peer, host, storeReady, pc, op, req, result, runtimeCalls, cancelled,
                   sent, reader, Errors, gen, eventsClosed, errReported,
                   rawOffset, reads, lastRead, subscribed, delivered, fnIn, fnOut>>

\* the reader ends: with a read error, which is put on Errors, or at the end
\* of the stream, which is or is not signalled on Errors (as io.EOF)
GenReadEnd ==
    /\ gen = "reading" /\ pc \notin Terminal /\ ~CtxDone
    /\ \E end \in {"error", "eof-signalled", "eof-silent"} :
         /\ Errors' = CASE end = "error" -> <<RawError("read failed")>>
                        [] end = "eof-signalled" -> <<EOF>>
                        [] OTHER -> <<>>
         /\ errReported' = (end = "error")
    /\ gen' = "ended"
    /\ UNCHANGED <<peer, host, storeReady, pc, op, req, result, runtimeCalls, cancelled,
                   sent, reader, produced, buffer, eventsClosed,
                   rawOffset, reads, lastRead, subscribed, delivered, fnIn, fnOut>>

\* the read loop has ended and every event was taken: Events is closed
GenClose ==
    /\ gen = "ended" /\ buffer = <<>> /\ ~eventsClosed /\ pc # "panicked"
    /\ eventsClosed' = TRUE
    /\ UNCHANGED <<peer, host, storeReady, pc, op, req, result, runtimeCalls, cancelled,
                   sent, reader, produced, buffer, Errors, gen, errReported,
                   rawOffset, reads, lastRead, subscribed, delivered, fnIn, fnOut>>

\* the generator observes the context: it stops and closes Events
GenCancel ==
    /\ gen # "none" /\ ~eventsClosed /\ CtxDone /\ pc # "panicked"
    /\ gen' = "ended"
    /\ eventsClosed' = TRUE
    /\ buffer' = <<>>
    /\ UNCHANGED <<peer, host, storeReady, pc, op, req, result, runtimeCalls, cancelled,
                   sent, reader, produced, Errors, errReported,
                   rawOffset, reads, lastRead, subscribed, delivered, fnIn, fnOut>>

-----------------------------------------------------------------------------
(* Streaming handlers *)

envVars == <<peer, host, storeReady>>
genVars == <<produced, buffer, Errors, gen, eventsClosed, errReported>>
rawVars == <<rawOffset, reads, lastRead>>
subVars == <<subscribed, delivered>>
pureVars == <<fnIn, fnOut>>

Returns(r) == pc' = "returned" /\ result' = r

\* out.Send(&pb.StreamLogsResponse{Event: logEventToPb(event)}), a second time
\* for the same event
SendLogEvent_twice(out, event) ==
    out \o <<[Event |-> logEventToPb(event)], [Event |-> logEventToPb(event)]>>

\* out.Send(&pb.StreamLogsResponse{Event: logEventToPb(event)}); the result of
\* Send is not looked at
SendLogEvent(out, event) == Append(out, [Event |-> logEventToPb(event)])

\* StreamLogs up to its range loop
StreamLogs ==
    /\ pc = "idle"
    /\ \E id \in ReqIds, since \in SinceValues, fail \in BOOLEAN :
         LET sinceArg == IF since # "nil" THEN since ELSE ZeroTime
             opened == client_ContainerLogs(id, fail)
             found == store_FindContainer(id)
         IN /\ op' = "StreamLogs"
            /\ req' = Request(id, "", since)
            /\ IF opened # ErrNil
               THEN /\ Returns(Response(opened, <<>>))
                    /\ UNCHANGED <<reader, gen>>
               ELSE /\ reader' = [kind |-> "logs", since |-> sinceArg, size |-> 0]
                    /\ IF found.err # ErrNil
                       THEN Returns(Response(found.err, <<>>)) /\ UNCHANGED gen
                       ELSE pc' = "range" /\ gen' = "reading" /\ UNCHANGED result
    /\ UNCHANGED <<envVars, runtimeCalls, cancelled, sent, produced, buffer, Errors,
                   eventsClosed, errReported, rawVars, subVars, pureVars>>

\* one pass of "for event := range g.Events"
StreamLogsEvent ==
    /\ op = "StreamLogs" /\ pc = "range"
    /\ buffer # <<>> /\ ~eventsClosed
    /\ sent' = SendLogEvent(sent, Head(buffer))
    /\ buffer' = Tail(buffer)
    /\ UNCHANGED <<envVars, pc, op, req, result, runtimeCalls, cancelled, reader,
                   produced, Errors, gen, eventsClosed, errReported,
                   rawVars, subVars, pureVars>>

\* Events is closed: the range loop ends, and the select with a default case
\* returns the error waiting on Errors, or nil
StreamLogsReturn ==
    /\ op = "StreamLogs" /\ pc = "range"
    /\ eventsClosed
    /\ IF Errors # <<>>
       THEN Returns(Response(Head(Errors), <<>>)) /\ Errors' = <<>>
       ELSE Returns(Response(ErrNil, <<>>)) /\ UNCHANGED Errors
    /\ UNCHANGED <<envVars, op, req, runtimeCalls, cancelled, sent, reader,
                   produced, buffer, gen, eventsClosed, errReported,
                   rawVars, subVars, pureVars>>

\* LogsBetweenDates up to its select loop
LogsBetweenDates ==
    /\ pc = "idle"
    /\ \E id \in ReqIds, fail \in BOOLEAN :
         LET opened == client_ContainerLogs(id, fail)
             found == client_FindContainer(id)
         IN /\ op' = "LogsBetweenDates"
            /\ req' = Request(id, "", "2024-06-01T00:00:00Z")
            /\ IF opened # ErrNil
               THEN /\ Returns(Response(opened, <<>>))
                    /\ UNCHANGED <<reader, gen>>
               ELSE /\ reader' = [kind |-> "between", since |-> req'.Since, size |-> 0]
                    /\ IF found.err # ErrNil
                       THEN Returns(Response(found.err, <<>>)) /\ UNCHANGED gen
                       ELSE pc' = "select" /\ gen' = "reading" /\ UNCHANGED result
    /\ UNCHANGED <<envVars, runtimeCalls, cancelled, sent, produced, buffer, Errors,
                   eventsClosed, errReported, rawVars, subVars, pureVars>>

\* case event := <-g.Events.  From the closed channel the receive yields the
\* nil *LogEvent, and logEventToPb's event.Message dereferences it: the
\* handler panics
LogsBetweenDatesEvent ==
    /\ op = "LogsBetweenDates" /\ pc = "select"
    /\ \/ /\ ~eventsClosed /\ buffer # <<>>
          /\ sent' = SendLogEvent(sent, Head(buffer))
          /\ buffer' = Tail(buffer)
          /\ UNCHANGED pc
       \/ /\ eventsClosed
          /\ pc' = "panicked"
          /\ UNCHANGED <<sent, buffer>>
    /\ UNCHANGED <<envVars, op, req, result, runtimeCalls, cancelled, reader,
                   produced, Errors, gen, eventsClosed, errReported,
                   rawVars, subVars, pureVars>>

\* case e := <-g.Errors: return e
LogsBetweenDatesError ==
    /\ op = "LogsBetweenDates" /\ pc = "select"
    /\ Errors # <<>>
    /\ Returns(Response(Head(Errors), <<>>))
    /\ Errors' = <<>>
    /\ UNCHANGED <<envVars, op, req, runtimeCalls, cancelled, sent, reader,
                   produced, buffer, gen, eventsClosed, errReported,
                   rawVars, subVars, pureVars>>

\* case <-out.Context().Done(): return nil
LogsBetweenDatesDone ==
    /\ op = "LogsBetweenDates" /\ pc = "select"
    /\ cancelled
    /\ Returns(Response(ErrNil, <<>>))
    /\ UNCHANGED <<envVars, op, req, runtimeCalls, cancelled, sent, reader,
                   genVars, rawVars, subVars, pureVars>>

\* what one reader.Read(buf) may return with `left` bytes still unread:
\* some bytes (a short read, or all that fit the buffer), the last of them
\* with or without io.EOF; no bytes and io.EOF at the end; a read error; and
\* no bytes without an error, which io.Reader permits
ReadOutcomes(left) ==
    {[n |-> n, err |-> ErrNil] :
        n \in {m \in {1, IF left < BufSize THEN left ELSE BufSize} : m >= 1 /\ m <= left}}
    \cup (IF left \in 1..BufSize THEN {[n |-> left, err |-> EOF]} ELSE {})
    \cup (IF left = 0 THEN {[n |-> 0, err |-> EOF]} ELSE {})
    \cup {[n |-> 0, err |-> RawError("read failed")], [n |-> 0, err |-> ErrNil]}

\* a Read of the reader whose context is done
CancelledRead == [n |-> 0, err |-> RawError("context canceled")]

\* StreamRawBytes up to its read loop
StreamRawBytes ==
    /\ pc = "idle"
    /\ \E id \in ReqIds, fail \in BOOLEAN,
          size \in {0, 1, BufSize, BufSize + ExtraBytes} :
         LET opened == client_ContainerLogs(id, fail) IN
         /\ op' = "StreamRawBytes"
         /\ req' = Request(id, "", "2024-06-01T00:00:00Z")
         /\ IF opened # ErrNil
            THEN Returns(Response(opened, <<>>)) /\ UNCHANGED reader
            ELSE /\ pc' = "read"
                 /\ reader' = [kind |-> "raw", since |-> "2024-06-01T00:00:00Z",
                               size |-> size]
                 /\ UNCHANGED result
    /\ UNCHANGED <<envVars, runtimeCalls, cancelled, sent, genVars, rawVars,
                   subVars, pureVars>>

\* no pass of the read loop was made yet
NoRead == [n |-> 0, err |-> ErrNil, sendFailed |-> FALSE]

\* the loop without `if n == 0 { break }`
ReadLoopStep_noBreak(r, sendFails) ==
    IF r.err # ErrNil THEN [return |-> TRUE, err |-> r.err, send |-> FALSE]
    ELSE IF sendFails
    THEN [return |-> TRUE, err |-> RawError("transport is closing"), send |-> FALSE]
    ELSE [return |-> FALSE, err |-> ErrNil, send |-> TRUE]

\* the body of the read loop after n, err := reader.Read(buf): return err; or
\* break on n = 0 and return nil; or Send buf[:n] and return the error of a
\* failed Send; or go round again.  `send` tells whether buf[:n] went out.
ReadLoopStep(r, sendFails) ==
    IF r.err # ErrNil THEN [return |-> TRUE, err |-> r.err, send |-> FALSE]
    ELSE IF r.n = 0 THEN [return |-> TRUE, err |-> ErrNil, send |-> FALSE]
    ELSE IF sendFails
    THEN [return |-> TRUE, err |-> RawError("transport is closing"), send |-> FALSE]
    ELSE [return |-> FALSE, err |-> ErrNil, send |-> TRUE]

\* one pass of the read loop
StreamRawBytesRead ==
    /\ op = "StreamRawBytes" /\ pc = "read"
    /\ reads < MaxReads \/ cancelled
    /\ \E r \in (IF reads < MaxReads THEN ReadOutcomes(reader.size - rawOffset) ELSE {})
                \cup (IF cancelled THEN {CancelledRead} ELSE {}),
          sendFails \in (IF cancelled THEN BOOLEAN ELSE {FALSE}) :
         LET step == ReadLoopStep(r, sendFails) IN
         /\ reads' = reads + 1
         /\ rawOffset' = rawOffset + r.n
         /\ errReported' = (errReported \/ r.err \notin {ErrNil, EOF})
         /\ lastRead' = [n |-> r.n, err |-> r.err,
                         sendFailed |-> (r.err = ErrNil /\ r.n > 0 /\ sendFails)]
         /\ sent' = IF step.send
                    THEN Append(sent, [Data |-> [off |-> rawOffset, n |-> r.n]])
                    ELSE sent
         /\ IF step.return
            THEN Returns(Response(step.err, <<>>))
            ELSE UNCHANGED <<pc, result>>
    /\ UNCHANGED <<envVars, op, req, runtimeCalls, cancelled, reader, produced,
                   buffer, Errors, gen, eventsClosed, subVars, pureVars>>

-----------------------------------------------------------------------------
(* Store subscriptions *)

ContainerEvent(actor, name, h) == [ActorID |-> actor, Name |-> name, Host |-> h]

\* what the store may publish to a subscription of each kind
Feed(kind) ==
    CASE kind = "StreamEvents" ->
           {ContainerEvent("c1", "start", "h1"), ContainerEvent("c2", "die", "h1")}
      [] kind = "StreamStats" -> {Stat("c1", 12, 22, 302), Stat("c2", 1, 2, 3)}
      [] OTHER -> {ContainerA, ContainerB}

\* the Name and the Host of the event are exchanged
ContainerEventToPb_swapped(event) ==
    [ActorId |-> event.ActorID, Name |-> event.Host, Host |-> event.Name]

ContainerEventToPb(event) ==
    [ActorId |-> event.ActorID, Name |-> event.Name, Host |-> event.Host]

\* StreamEvents: the channel is made and registered with the store
StreamEvents ==
    /\ pc = "idle"
    /\ op' = "StreamEvents" /\ pc' = "select"
    /\ subscribed' = "yes"
    /\ UNCHANGED <<envVars, req, result, runtimeCalls, cancelled, sent, reader,
                   genVars, rawVars, delivered, pureVars>>

\* StreamStats: the channel is made and registered with the store
StreamStats ==
    /\ pc = "idle"
    /\ op' = "StreamStats" /\ pc' = "select"
    /\ subscribed' = "yes"
    /\ UNCHANGED <<envVars, req, result, runtimeCalls, cancelled, sent, reader,
                   genVars, rawVars, delivered, pureVars>>

\* StreamContainerStarted: the channel is made, and a goroutine is started
\* to run store.SubscribeNewContainers
StreamContainerStarted ==
    /\ pc = "idle"
    /\ op' = "StreamContainerStarted" /\ pc' = "select"
    /\ subscribed' = "starting"
    /\ UNCHANGED <<envVars, req, result, runtimeCalls, cancelled, sent, reader,
                   genVars, rawVars, delivered, pureVars>>

\* the goroutine registers the channel with the store and ends
SubscribeNewContainers ==
    /\ subscribed = "starting" /\ pc # "panicked"
    /\ subscribed' = "yes"
    /\ UNCHANGED <<envVars, pc, op, req, result, runtimeCalls, cancelled, sent,
                   reader, genVars, rawVars, delivered, pureVars>>

\* the store stops serving a subscription whose context is done; its sends
\* never wait for a subscriber that is gone
StoreUnsubscribe ==
    /\ subscribed = "yes" /\ CtxDone /\ pc # "panicked"
    /\ subscribed' = "removed"
    /\ UNCHANGED <<envVars, pc, op, req, result, runtimeCalls, cancelled, sent,
                   reader, genVars, rawVars, delivered, pureVars>>

\* what each subscription handler sends for a value it received
SubscriptionResponse(kind, v) ==
    CASE kind = "StreamEvents" -> [Event |-> ContainerEventToPb(v)]
      [] kind = "StreamStats" -> [Stat |-> ContainerStatToPb(v)]
      [] OTHER -> [Container |-> StartedContainerToPb(v)]

\* the store puts a value on the channel and the handler's select takes it:
\* case x := <-channel: out.Send(...)
Receive(kind) ==
    /\ op = kind /\ pc = "select"
    /\ subscribed = "yes"
    /\ Len(delivered) < MaxFeed
    /\ \E v \in Feed(kind) :
         /\ delivered' = Append(delivered, v)
         /\ sent' = Append(sent, SubscriptionResponse(kind, v))
    /\ UNCHANGED <<envVars, pc, op, req, result, runtimeCalls, cancelled, reader,
                   genVars, rawVars, subscribed, pureVars>>

\* case <-out.Context().Done(): return nil
Done(kind) ==
    /\ op = kind /\ pc = "select"
    /\ cancelled
    /\ Returns(Response(ErrNil, <<>>))
    /\ UNCHANGED <<envVars, op, req, runtimeCalls, cancelled, sent, reader,
                   genVars, rawVars, subVars, pureVars>>

StreamEventsEvent == Receive("StreamEvents")
StreamEventsDone == Done("StreamEvents")
StreamStatsStat == Receive("StreamStats")
StreamStatsDone == Done("StreamStats")
StreamContainerStartedContainer == Receive("StreamContainerStarted")
StreamContainerStartedDone == Done("StreamContainerStarted")

\* the caller cancels the call in progress
Cancel ==
    /\ pc \notin {"connecting", "rejected", "idle"} \cup Terminal
    /\ ~cancelled
    /\ cancelled' = TRUE
    /\ UNCHANGED <<envVars, pc, op, req, result, runtimeCalls, sent, reader,
                   genVars, rawVars, subVars, pureVars>>

-----------------------------------------------------------------------------
(* Unary calls *)

FindContainer ==
    /\ pc = "idle"
    /\ \E id \in ReqIds :
         /\ req' = Request(id, "", "nil")
         /\ Returns(FindContainerCall(req'))
    /\ op' = "FindContainer"
    /\ UNCHANGED <<envVars, runtimeCalls, cancelled, sent, reader, genVars,
                   rawVars, subVars, pureVars>>

ListContainers ==
    /\ pc = "idle"
    /\ op' = "ListContainers"
    /\ Returns(ListContainersCall)
    /\ UNCHANGED <<envVars, req, runtimeCalls, cancelled, sent, reader, genVars,
                   rawVars, subVars, pureVars>>

HostInfo ==
    /\ pc = "idle"
    /\ op' = "HostInfo"
    /\ Returns(HostInfoCall)
    /\ UNCHANGED <<envVars, req, runtimeCalls, cancelled, sent, reader, genVars,
                   rawVars, subVars, pureVars>>

ContainerAction ==
    /\ pc = "idle"
    /\ \E id \in ReqIds, action \in WireActions, fail \in BOOLEAN :
         LET call == ContainerActionCall(Request(id, action, "nil"), fail) IN
         /\ req' = Request(id, action, "nil")
         /\ Returns(call.result)
         /\ runtimeCalls' = runtimeCalls \o call.calls
    /\ op' = "ContainerAction"
    /\ UNCHANGED <<envVars, cancelled, sent, reader, genVars, rawVars, subVars,
                   pureVars>>

-----------------------------------------------------------------------------
(* NewServer: the transport credentials *)

\* an X.509 certificate: its subject, its public key, and the key that signed it
Cert(subject, key, signedBy) == [subject |-> subject, key |-> key, signedBy |-> signedBy]

\* the peer sent no certificate
NoCertificate == Cert("", "", "")

\* the certificate the agent is started with, which its clients share
AgentCert == Cert("dozzle", "k-shared", "k-shared")

\* what a connecting peer may present: nothing, the shared certificate, one
\* issued under it, and one of the same subject made with another key
Peers == {NoCertificate, AgentCert, Cert("client", "k-client", "k-shared"),
          Cert("dozzle", "k-other", "k-other")}

\* the configuration with ClientAuth: tls.RequireAnyClientCert
tlsConfig_anyCert ==
    [Certificates |-> <<AgentCert>>, ClientCAs |-> {AgentCert},
     ClientAuth |-> "RequireAnyClientCert"]

\* tlsConfig of NewServer: the pool of client CAs holds the agent's own
\* certificate, and a verified client certificate is required
tlsConfig ==
    [Certificates |-> <<AgentCert>>, ClientCAs |-> {AgentCert},
     ClientAuth |-> "RequireAndVerifyClientCert"]

\* x509 verification of a certificate against a pool of roots: it is one of
\* the roots, or it was signed by the key of one
Verifies(cert, roots) ==
    cert \in roots \/ \E ca \in roots : cert.signedBy = ca.key

\* the server side of the TLS handshake under a configuration, by ClientAuth
HandshakeAccepts(config, cert) ==
    CASE config.ClientAuth \in {"NoClientCert", "RequestClientCert"} -> TRUE
      [] config.ClientAuth = "RequireAnyClientCert" -> cert # NoCertificate
      [] config.ClientAuth = "VerifyClientCertIfGiven" ->
           cert = NoCertificate \/ Verifies(cert, config.ClientCAs)
      [] config.ClientAuth = "RequireAndVerifyClientCert" ->
           cert # NoCertificate /\ Verifies(cert, config.ClientCAs)

\* grpc.NewServer(grpc.Creds(creds)): a connection serves calls only after
\* the handshake of its credentials succeeded, and is closed otherwise
Handshake ==
    /\ pc = "connecting"
    /\ pc' = IF HandshakeAccepts(tlsConfig, peer) THEN "idle" ELSE "rejected"
    /\ UNCHANGED <<envVars, op, req, result, runtimeCalls, cancelled, sent, reader,
                   genVars, rawVars, subVars, pureVars>>

-----------------------------------------------------------------------------

(* The server *)

NoCall == [fn |-> "none"]

Init ==
    /\ peer \in Peers
    /\ host \in HostListings
    /\ storeReady \in BOOLEAN
    /\ pc = "connecting"
    /\ op = "none"
    /\ req = NoRequest
    /\ result = NoResult
    /\ runtimeCalls = <<>>
    /\ cancelled = FALSE
    /\ sent = <<>>
    /\ reader = NoReader
    /\ produced = <<>>
    /\ buffer = <<>>
    /\ Errors = <<>>
    /\ gen = "none"
    /\ eventsClosed = FALSE
    /\ errReported = FALSE
    /\ rawOffset = 0
    /\ reads = 0
    /\ lastRead = NoRead
    /\ subscribed = "no"
    /\ delivered = <<>>
    /\ fnIn = NoCall
    /\ fnOut = NoCall

Next ==
    \/ Handshake
    \/ FindContainer
    \/ ListContainers
    \/ HostInfo
    \/ ContainerAction
    \/ StreamLogs
    \/ StreamLogsEvent
    \/ StreamLogsReturn
    \/ LogsBetweenDates
    \/ LogsBetweenDatesEvent
    \/ LogsBetweenDatesError
    \/ LogsBetweenDatesDone
    \/ StreamRawBytes
    \/ StreamRawBytesRead
    \/ StreamEvents
    \/ StreamEventsEvent
    \/ StreamEventsDone
    \/ StreamStats
    \/ StreamStatsStat
    \/ StreamStatsDone
    \/ StreamContainerStarted
    \/ SubscribeNewContainers
    \/ StreamContainerStartedContainer
    \/ StreamContainerStartedDone
    \/ StoreUnsubscribe
    \/ GenRead
    \/ GenReadEnd
    \/ GenClose
    \/ GenCancel
    \/ Cancel

Spec == Init /\ [][Next]_vars

\* the scheduler runs every goroutine that can take a step; the caller is
\* free to call and to cancel, or not, and a reader may never end
SpecFair ==
    /\ Init /\ [][Next]_vars
    /\ WF_vars(StreamLogsEvent) /\ WF_vars(StreamLogsReturn)
    /\ WF_vars(LogsBetweenDatesEvent) /\ WF_vars(LogsBetweenDatesError)
    /\ WF_vars(LogsBetweenDatesDone)
    /\ WF_vars(StreamRawBytesRead)
    /\ WF_vars(StreamEventsDone) /\ WF_vars(StreamStatsDone)
    /\ WF_vars(StreamContainerStartedDone)
    /\ WF_vars(SubscribeNewContainers) /\ WF_vars(StoreUnsubscribe)
    /\ WF_vars(GenClose) /\ WF_vars(GenCancel)

-----------------------------------------------------------------------------
(* docker/types.go: IsCloseToTime and ParseContainerAction *)

\* An int64 is kept as three limbs, value = a * 2^60 + b * 2^30 + c with
\* b and c in 0 .. 2^30 - 1 and the signed top limb a in -8 .. 7.
Limb == 2^30

I64(a, b, c) == [a |-> a, b |-> b, c |-> c]

\* the int64 of an integer of small magnitude
FromInt(n) == I64((n \div Limb) \div Limb, (n \div Limb) % Limb, n % Limb)

MaxInt64 == I64(7, Limb - 1, Limb - 1)
MinInt64 == I64(-8, 0, 0)

\* x - y as an integer: the top limb is not reduced
ExactDiff(x, y) ==
    LET c == x.c - y.c
        bc == IF c < 0 THEN 1 ELSE 0
        b == x.b - y.b - bc
        bb == IF b < 0 THEN 1 ELSE 0
    IN I64(x.a - y.a - bb, b + bb * Limb, c + bc * Limb)

\* x - y of two int64 in Go: the result wraps around modulo 2^64
Int64Sub(x, y) ==
    LET d == ExactDiff(x, y) IN I64(((d.a + 8) % 16) - 8, d.b, d.c)

\* math.Abs(float64(v)) < k for a small positive k.  The conversion to
\* float64 is exact below 2^53 and monotone, so it decides the comparison
\* as the integer does: -k < v < k.
AbsLessThan(v, k) ==
    \/ v.a = 0 /\ v.b = 0 /\ v.c < k
    \/ v.a = -1 /\ v.b = Limb - 1 /\ v.c > Limb - k

\* the comparison is <= 10
IsCloseToTime_inclusive(l, other) ==
    AbsLessThan(Int64Sub(l.Timestamp, other.Timestamp), 11)

\* func (l *LogEvent) IsCloseToTime(other *LogEvent) bool
IsCloseToTime(l, other) ==
    AbsLessThan(Int64Sub(l.Timestamp, other.Timestamp), 10)

\* the timestamps IsCloseToTime is applied to: log times a few seconds
\* apart, times around zero, and the ends of the int64 range
Timestamps ==
    {FromInt(n) : n \in {-5, 0, 4, 9, 10, 1717200000, 1717200009, 1717200010,
                         1717200011}}
    \cup {MaxInt64, I64(7, Limb - 1, Limb - 9), MinInt64, I64(-8, 0, 3)}

\* the case for Restart is missing
ParseContainerAction_noRestart(input) ==
    IF input \in {Start, Stop}
    THEN [action |-> input, err |-> ErrNil]
    ELSE [action |-> "", err |-> RawError("unknown action: " \o input)]

\* func ParseContainerAction(input string) (ContainerAction, error)
ParseContainerAction(input) ==
    IF input \in {Start, Stop, Restart}
    THEN [action |-> input, err |-> ErrNil]
    ELSE [action |-> "", err |-> RawError("unknown action: " \o input)]

\* the strings ParseContainerAction is applied to
ActionInputs ==
    {"start", "stop", "restart", "Start", "STOP", "Restart", "restart ",
     " start", "", "pause", "remove", "starts"}

-----------------------------------------------------------------------------

(* logEventToPb applied to one LogEvent *)

Messages ==
    {StrMsg(""), StrMsg("hello"), StrMsg("{\"a\":1}"),
     MapAnyMsg(<<>>),
     MapAnyMsg(<<KV("level", JStr("error")), KV("code", JNum(7))>>),
     MapAnyMsg(<<KV("code", JNum(7)), KV("level", JStr("error"))>>),
     MapStrMsg(<<KV("a", JStr("1"))>>),
     OtherMsg}

LogEvents ==
    {LogEvent(m, ts, id, lvl, p, s, c) :
        m \in Messages, ts \in {0, 1717200000}, id \in {0, 1, 2147483647},
        lvl \in {"", "info"}, p \in {Beginning, Middle, End},
        s \in {"stdout", "stderr"}, c \in {"c1", "c2"}}

\* the calls of pure functions that are followed
PureCalls ==
    {[fn |-> "logEventToPb", arg |-> e] : e \in LogEvents}
    \cup {[fn |-> "IsCloseToTime", l |-> [Timestamp |-> t],
           other |-> [Timestamp |-> u]] : t, u \in Timestamps}
    \cup {[fn |-> "ParseContainerAction", arg |-> i] : i \in ActionInputs}

InitPure ==
    /\ peer = AgentCert
    /\ host = <<>>
    /\ storeReady = TRUE
    /\ pc = "apply"
    /\ op = "none"
    /\ req = NoRequest
    /\ result = NoResult
    /\ runtimeCalls = <<>>
    /\ cancelled = FALSE
    /\ sent = <<>>
    /\ reader = NoReader
    /\ produced = <<>>
    /\ buffer = <<>>
    /\ Errors = <<>>
    /\ gen = "none"
    /\ eventsClosed = FALSE
    /\ errReported = FALSE
    /\ rawOffset = 0
    /\ reads = 0
    /\ lastRead = NoRead
    /\ subscribed = "no"
    /\ delivered = <<>>
    /\ fnIn \in PureCalls
    /\ fnOut = NoCall

ApplyLogEventToPb ==
    /\ pc = "apply" /\ fnIn.fn = "logEventToPb"
    /\ fnOut' = [fn |-> "logEventToPb", res |-> logEventToPb(fnIn.arg)]
    /\ pc' = "applied"
    /\ UNCHANGED <<envVars, op, req, result, runtimeCalls, cancelled, sent, reader,
                   genVars, rawVars, subVars, fnIn>>

\* IsCloseToTime, applied both ways round
ApplyIsCloseToTime ==
    /\ pc = "apply" /\ fnIn.fn = "IsCloseToTime"
    /\ fnOut' = [fn |-> "IsCloseToTime",
                 res |-> IsCloseToTime(fnIn.l, fnIn.other),
                 swapped |-> IsCloseToTime(fnIn.other, fnIn.l)]
    /\ pc' = "applied"
    /\ UNCHANGED <<envVars, op, req, result, runtimeCalls, cancelled, sent, reader,
                   genVars, rawVars, subVars, fnIn>>

ApplyParseContainerAction ==
    /\ pc = "apply" /\ fnIn.fn = "ParseContainerAction"
    /\ fnOut' = [fn |-> "ParseContainerAction", res |-> ParseContainerAction(fnIn.arg)]
    /\ pc' = "applied"
    /\ UNCHANGED <<envVars, op, req, result, runtimeCalls, cancelled, sent, reader,
                   genVars, rawVars, subVars, fnIn>>

NextPure ==
    \/ ApplyLogEventToPb
    \/ ApplyIsCloseToTime
    \/ ApplyParseContainerAction

SpecPure == InitPure /\ [][NextPure]_vars

-----------------------------------------------------------------------------
(* Properties *)

ValidWireActions == {"ContainerAction_Start", "ContainerAction_Stop",
                     "ContainerAction_Restart"}
Taxonomy == {"NotFound", "InvalidArgument", "Internal"}
UnaryOps == {"FindContainer", "ListContainers", "HostInfo", "ContainerAction"}

IsStatus(err, code) == err.type = "status" /\ err.code = code

\* C1: ContainerAction with a valid action and a container id that matches no
\* container of the host returns a not-found condition.
C1_UnknownContainerIsNotFound ==
    (op = "ContainerAction" /\ pc = "returned"
       /\ req.Action \in ValidWireActions /\ req.ContainerId \notin HostIds)
    => IsStatus(result.err, "NotFound")

\* the session of the generator ended at the end of the reader, with no read
\* error, and the caller did not cancel
EndedByExhaustion == gen = "ended" /\ ~errReported /\ ~cancelled

\* C2: once the reader is exhausted, and without the caller cancelling,
\* LogsBetweenDates ends with success, also when no event was in range.
C2_ExhaustedStreamEndsWithSuccess ==
    (op = "LogsBetweenDates" /\ pc \in Terminal /\ EndedByExhaustion)
    => (pc = "returned" /\ result.err = ErrNil)

\* C3: when LogsBetweenDates ends without cancellation, every LogEvent the
\* generator produced was sent, once and in order.
C3_AllProducedEventsSent ==
    (op = "LogsBetweenDates" /\ pc \in Terminal /\ gen # "none" /\ ~cancelled)
    => /\ Len(sent) = Len(produced)
       /\ \A i \in 1..Len(sent) : sent[i].Event.Id = produced[i].Id

\* C4: a log or byte stream whose reader or generator reported an error ends
\* with a non-nil error, never with success.
C4_ReportedErrorIsPropagated ==
    (op \in {"StreamLogs", "LogsBetweenDates", "StreamRawBytes"}
       /\ errReported /\ pc \in Terminal)
    => (pc = "returned" /\ result.err # ErrNil)

\* C5: ContainerAction with an action outside start, stop and restart returns
\* an invalid-argument condition, and the runtime client is not called.
C5_InvalidActionRejected ==
    (op = "ContainerAction" /\ pc = "returned" /\ req.Action \notin ValidWireActions)
    => (IsStatus(result.err, "InvalidArgument") /\ runtimeCalls = <<>>)

C5_Witness ==
    /\ op = "ContainerAction" /\ pc = "returned"
    /\ req.Action = "ContainerAction_99" /\ req.ContainerId \in HostIds
    /\ result.err.code = "InvalidArgument"

\* C6: for a valid wire action ContainerAction calls the runtime client once,
\* with the corresponding action and the request's container id; a failure of
\* that call is returned as an internal condition carrying its message, a
\* success as a response with no error.
C6_ValidActionForwardedOnce ==
    (op = "ContainerAction" /\ pc = "returned" /\ req.Action \in ValidWireActions)
    => /\ Len(runtimeCalls) = 1
       /\ runtimeCalls[1].action =
            (CASE req.Action = "ContainerAction_Start" -> "start"
               [] req.Action = "ContainerAction_Stop" -> "stop"
               [] req.Action = "ContainerAction_Restart" -> "restart")
       /\ runtimeCalls[1].id = req.ContainerId
       /\ IF runtimeCalls[1].err # ErrNil
          THEN /\ IsStatus(result.err, "Internal")
               /\ result.err.msg = runtimeCalls[1].err.msg
               /\ result.resp = <<>>
          ELSE result.err = ErrNil /\ result.resp = <<"ContainerActionResponse">>

C6_Witness ==
    /\ op = "ContainerAction" /\ pc = "returned"
    /\ req.Action = "ContainerAction_Stop" /\ req.ContainerId = "c2"
    /\ Len(runtimeCalls) = 1
    /\ runtimeCalls[1].err.msg = "runtime failure"
    /\ result.err.msg = "runtime failure"

\* C7: every error a unary operation returns is a not-found, invalid-argument
\* or internal condition.
C7_UnaryErrorsInTaxonomy ==
    (op \in UnaryOps /\ pc = "returned" /\ result.err # ErrNil)
    => (result.err.type = "status" /\ result.err.code \in Taxonomy)

\* the serialized form of the ordered maps among Messages, written out
ExpectedJSON(ps) ==
    CASE ps = <<>> -> "{}\n"
      [] ps = <<KV("level", JStr("error")), KV("code", JNum(7))>> ->
           "{\"level\":\"error\",\"code\":7}\n"
      [] ps = <<KV("code", JNum(7)), KV("level", JStr("error"))>> ->
           "{\"code\":7,\"level\":\"error\"}\n"
      [] ps = <<KV("a", JStr("1"))>> -> "{\"a\":\"1\"}\n"

C9_StreamLogsKeepsOrder ==
    op = "StreamLogs"
    => /\ Len(sent) <= Len(produced)
       /\ \A i \in 1..Len(sent) :
            /\ sent[i].Event.Id = produced[i].Id
            /\ sent[i].Event.Stream = produced[i].Stream
            /\ sent[i].Event.Timestamp.seconds = produced[i].Timestamp
       /\ \A i, j \in 1..Len(sent) : i < j => sent[i].Event.Id < sent[j].Event.Id
       /\ ~cancelled => Len(sent) + Len(buffer) = Len(produced)

C9_Witness ==
    /\ op = "StreamLogs" /\ Len(sent) >= 2
    /\ sent[1].Event.Stream = "stderr" /\ sent[2].Event.Stream = "stdout"
    /\ pc = "returned" /\ ~cancelled
    /\ sent[1].Event.Id < sent[2].Event.Id

\* every task of the call has ended
CallQuiet ==
    /\ pc = "returned"
    /\ gen = "none" \/ (gen = "ended" /\ eventsClosed)
    /\ subscribed \in {"no", "removed"}

\* C10: once the context of a streaming call is cancelled, its handler
\* eventually returns and no task started for the call stays blocked.
C10_CancelledCallEnds == cancelled ~> CallQuiet

\* C11: StreamEvents and StreamStats mirror the store's subscriptions: what
\* was sent is, one for one and in delivery order, what the store delivered
\* on the handler's channel, with every field unchanged, and the handler
\* returns only once the call is cancelled, and then with success.
C11_SubscriptionsMirrored ==
    /\ op = "StreamEvents" =>
         /\ Len(sent) = Len(delivered)
         /\ \A i \in 1..Len(sent) :
              /\ sent[i].Event.ActorId = delivered[i].ActorID
              /\ sent[i].Event.Name = delivered[i].Name
              /\ sent[i].Event.Host = delivered[i].Host
    /\ op = "StreamStats" =>
         /\ Len(sent) = Len(delivered)
         /\ \A i \in 1..Len(sent) :
              /\ sent[i].Stat.Id = delivered[i].ID
              /\ sent[i].Stat.CpuPercent = delivered[i].CPUPercent
              /\ sent[i].Stat.MemoryPercent = delivered[i].MemoryPercent
              /\ sent[i].Stat.MemoryUsage = delivered[i].MemoryUsage
    /\ op \in {"StreamEvents", "StreamStats"} =>
         /\ pc \in {"select", "returned"}
         /\ pc = "returned" => (cancelled /\ result.err = ErrNil)

C11_Witness ==
    /\ op = "StreamEvents" /\ pc = "returned"
    /\ Len(delivered) = 2 /\ Len(sent) = 2
    /\ sent[1].Event.Name = "die" /\ sent[2].Event.Name = "start"
    /\ sent[1].Event.ActorId = "c2" /\ sent[1].Event.Host = "h1"

\* the wire container p carries the attributes of the store's container c
SameContainer(p, c) ==
    /\ p.Id = c.ID /\ p.Name = c.Name
    /\ p.Image = c.Image /\ p.ImageId = c.ImageID
    /\ p.Command = c.Command
    /\ p.Created = c.Created /\ p.Started = c.StartedAt
    /\ p.State = c.State /\ p.Health = c.Health
    /\ p.Host = c.Host /\ p.Tty = c.Tty
    /\ p.Labels = c.Labels /\ p.Group = c.Group

\* C12: the wire Container that FindContainer, ListContainers and
\* StreamContainerStarted return carries the store's values of identifier,
\* name, image, image identifier, command, created, started, state, health,
\* host, TTY flag, labels and group; none of them is dropped.
C12_WireContainerFaithful ==
    /\ (op = "FindContainer" /\ pc = "returned" /\ result.err = ErrNil) =>
         SameContainer(result.resp[1], Lookup(host, req.ContainerId))
    /\ (op = "ListContainers" /\ pc = "returned" /\ result.err = ErrNil) =>
         /\ Len(result.resp) = Len(host)
         /\ \A i \in 1..Len(host) : SameContainer(result.resp[i], host[i])
    /\ op = "StreamContainerStarted" =>
         /\ Len(sent) = Len(delivered)
         /\ \A i \in 1..Len(sent) : SameContainer(sent[i].Container, delivered[i])

\* the time of the call, which lies after every time a request can name
TimeOfCall == "time.Now()"

\* C13: StreamLogs has the log read start at the request's since when it is
\* set and at the time of the call when it is unset, never at an earlier time.
C13_UnsetSinceStartsNow ==
    (op = "StreamLogs" /\ reader.kind = "logs")
    => reader.since = (IF req.Since = "nil" THEN TimeOfCall ELSE req.Since)

\* a pass of the read loop of StreamRawBytes met a read error, the end of the
\* source, or a failed Send
RawStreamEnded ==
    \/ lastRead.err # ErrNil
    \/ lastRead.sendFailed
    \/ reads > 0 /\ lastRead.n = 0

\* what holds of StreamRawBytes in every state
RawChunksBounded ==
    op = "StreamRawBytes" =>
      /\ \A i \in 1..Len(sent) : sent[i].Data.n >= 1 /\ sent[i].Data.n <= 1024
      /\ RawStreamEnded => pc = "returned"
      /\ rawOffset <= reader.size

\* what holds of every step of StreamRawBytes: nothing is sent once it has
\* returned, and a pass of the loop that does not return has taken at least
\* one more byte from the source and sent one chunk
RawLoopProgress ==
    op = "StreamRawBytes" =>
      /\ pc = "returned" => sent' = sent
      /\ (reads' # reads /\ pc' = "read") =>
           (rawOffset' > rawOffset /\ Len(sent') = Len(sent) + 1)

\* C14: StreamRawBytes sends chunks of 1 to 1024 bytes; it returns at the
\* first read error, end of source or failed Send and sends nothing after
\* it; every pass of its loop that goes on has consumed bytes of the source,
\* so that the handler of a finite source returns (within the passes the
\* model follows).
C14_RawBytesChunkedAndEnding ==
    /\ []RawChunksBounded
    /\ [][RawLoopProgress]_vars
    /\ (op = "StreamRawBytes" /\ pc = "read") ~> (pc = "returned" \/ reads >= MaxReads)

C14_Witness ==
    /\ op = "StreamRawBytes" /\ pc = "returned"
    /\ reader.size = 1025 /\ Len(sent) = 2
    /\ sent[1].Data.n = 1024 /\ sent[2].Data.n = 1
    /\ lastRead.err = EOF /\ lastRead.n = 0

\* the int64 values of absolute value below 10
BelowTen == {FromInt(k) : k \in -9..9}

\* C15 as claimed: IsCloseToTime is true exactly when the absolute difference
\* of the two timestamps is below 10, and the same with the events swapped.
C15_CloseIffWithinTen ==
    (pc = "applied" /\ fnIn.fn = "IsCloseToTime")
    => /\ fnOut.res = (ExactDiff(fnIn.l.Timestamp, fnIn.other.Timestamp) \in BelowTen)
       /\ fnOut.swapped = fnOut.res

\* the difference of two int64 as 64-bit arithmetic yields it: 2^64 away from
\* the integer difference when that lies outside the int64 range
WrappedDiff(x, y) ==
    LET d == ExactDiff(x, y) IN
    IF d.a > 7 THEN I64(d.a - 16, d.b, d.c)
    ELSE IF d.a < -8 THEN I64(d.a + 16, d.b, d.c)
    ELSE d

\* C15, amended: IsCloseToTime is true exactly when the 64-bit difference of
\* the two timestamps, which wraps around when the integer difference does
\* not fit an int64, has an absolute value below 10; for timestamps whose
\* difference fits, that is the absolute difference being below 10.  The
\* result is the same with the events swapped.
C15_CloseIffWrappedWithinTen ==
    (pc = "applied" /\ fnIn.fn = "IsCloseToTime")
    => /\ fnOut.res = (WrappedDiff(fnIn.l.Timestamp, fnIn.other.Timestamp) \in BelowTen)
       /\ fnOut.swapped = fnOut.res

C15_Witness ==
    /\ pc = "applied" /\ fnIn.fn = "IsCloseToTime"
    /\ fnIn.l.Timestamp = FromInt(1717200010)
    /\ fnIn.other.Timestamp = FromInt(1717200000)
    /\ fnOut.res = FALSE /\ fnOut.swapped = FALSE

\* C20: ParseContainerAction returns its input as the action, with no error,
\* exactly for "start", "stop" and "restart" in this spelling, and the empty
\* action with an error for every other input.
C20_OnlyThreeActionsParse ==
    (pc = "applied" /\ fnIn.fn = "ParseContainerAction")
    => IF fnIn.arg \in {"start", "stop", "restart"}
       THEN fnOut.res.action = fnIn.arg /\ fnOut.res.err = ErrNil
       ELSE fnOut.res.action = "" /\ fnOut.res.err # ErrNil

C20_Witness ==
    /\ pc = "applied" /\ fnIn.fn = "ParseContainerAction"
    /\ fnIn.arg = "Restart"
    /\ fnOut.res.action = "" /\ fnOut.res.err.msg = "unknown action: Restart"

\* C16: no operation runs on a connection whose peer presented no
\* certificate or one that does not verify against the shared certificate:
\* such a connection is rejected, with no call started, nothing sent and
\* nothing returned.
C16_NoOperationWithoutHandshake ==
    (peer = NoCertificate \/ (peer # AgentCert /\ peer.signedBy # "k-shared"))
    => /\ pc \in {"connecting", "rejected"}
       /\ op = "none" /\ sent = <<>> /\ result = NoResult
       /\ runtimeCalls = <<>> /\ subscribed = "no" /\ reader = NoReader

C16_Witness ==
    /\ pc = "rejected"
    /\ peer.subject = "dozzle" /\ peer.key = "k-other"
    /\ op = "none"

\* C17: LogsBetweenDates never takes the nil event of the closed Events
\* channel and hands it to logEventToPb, which dereferences it.
C17_NoNilEventEncoded ==
    op = "LogsBetweenDates" => pc # "panicked"

\* the chunks sent are, in order and with no gap, the first n bytes of the source
ChunksCover(n) ==
    /\ \A i \in 1..Len(sent) :
         sent[i].Data.off = (IF i = 1 THEN 0 ELSE sent[i-1].Data.off + sent[i-1].Data.n)
    /\ n = (IF sent = <<>> THEN 0
            ELSE sent[Len(sent)].Data.off + sent[Len(sent)].Data.n)

\* C18: when StreamRawBytes returns, and no Send has failed, the chunks sent
\* are all the bytes its reader returned, in order, those of a read that
\* returned bytes together with an error included.
C18_NoBytesLost ==
    (op = "StreamRawBytes" /\ pc = "returned" /\ ~lastRead.sendFailed)
    => ChunksCover(rawOffset)

\* the last n values of a sequence, in its order
LastN(seq, n) ==
    IF Len(seq) <= n THEN seq ELSE SubSeq(seq, Len(seq) - n + 1, Len(seq))

\* C19: ListContainers returns one wire container for each container of the
\* store's snapshot, in the snapshot's order, each with the samples its ring
\* buffer holds, which are the last RingCapacity recorded, oldest first and
\* unchanged; when the store fails it returns no containers and the error.
C19_ListMirrorsSnapshot ==
    (op = "ListContainers" /\ pc = "returned")
    => IF storeReady
       THEN /\ result.err = ErrNil
            /\ Len(result.resp) = Len(host)
            /\ \A i \in 1..Len(host) :
                 LET held == LastN(StatsRecorded(host[i].ID), RingCapacity)
                     stats == result.resp[i].Stats
                 IN /\ result.resp[i].Id = host[i].ID
                    /\ Len(stats) = Len(held)
                    /\ \A k \in 1..Len(held) :
                         /\ stats[k].Id = held[k].ID
                         /\ stats[k].CpuPercent = held[k].CPUPercent
                         /\ stats[k].MemoryPercent = held[k].MemoryPercent
                         /\ stats[k].MemoryUsage = held[k].MemoryUsage
       ELSE result.err # ErrNil /\ result.resp = <<>>

C19_Witness ==
    /\ op = "ListContainers" /\ pc = "returned" /\ storeReady
    /\ Len(result.resp) = 2
    /\ result.resp[1].Id = "c1" /\ result.resp[2].Id = "c2"
    /\ Len(result.resp[1].Stats) >= 2
    /\ result.resp[1].Stats[1].MemoryUsage < result.resp[1].Stats[2].MemoryUsage
    /\ result.resp[2].Stats = <<>>

====
